---- MODULE Spec2Model ----
(***************************************************************************)
(* Resize-and-watermarker: the single-image transform (processImage) and   *)
(* the batch driver of App (handleProcessAll, the re-run effect, Clear).   *)
(*                                                                         *)
(* Numbers.  JavaScript numbers are IEEE-754 doubles.  The resize ratio    *)
(* and the scaled height (img.height * (maxWidth / img.width)) are         *)
(* computed here bit by bit in binary64 with round-to-nearest-even,        *)
(* because Math.round and the canvas size conversion decide on the last    *)
(* bit.  All other quantities (font size, padding, anchors, steps) are     *)
(* exact rationals <<n, d>>.                                               *)
(***************************************************************************)
EXTENDS Integers, Sequences, FiniteSets, TLC

(***************************************************************************)
(* Exact rationals <<n, d>>, d > 0, in lowest terms.                       *)
(***************************************************************************)
Abs(a) == IF a < 0 THEN -a ELSE a

RECURSIVE GCD(_, _)
GCD(a, b) == IF b = 0 THEN a ELSE GCD(b, a % b)

Rat(n, d) ==
    LET s == IF d < 0 THEN -1 ELSE 1
        g == GCD(Abs(n), Abs(d))
    IN  IF n = 0 THEN <<0, 1>> ELSE <<(s * n) \div g, (s * d) \div g>>

RInt(a) == <<a, 1>>
RAdd(p, q) == Rat(p[1] * q[2] + q[1] * p[2], p[2] * q[2])
RNeg(p) == <<-p[1], p[2]>>
RSub(p, q) == RAdd(p, RNeg(q))
RMul(p, q) == Rat(p[1] * q[1], p[2] * q[2])
RDivInt(p, k) == Rat(p[1], p[2] * k)
RLt(p, q) == p[1] * q[2] < q[1] * p[2]
RLe(p, q) == p[1] * q[2] <= q[1] * p[2]
\* (variant: no lower bound)
RFirst(p, q) == p
RMax(p, q) == IF RLt(p, q) THEN q ELSE p
RFloor(p) == p[1] \div p[2]
RIsInt(p) == p[2] = 1

(***************************************************************************)
(* Binary64.  Significands are held in limbs of 14 bits, most significant  *)
(* first, so that every intermediate product stays a small integer.  The   *)
(* operands are naturals below 2^15.                                       *)
(***************************************************************************)
Limb == 2^14

BitLen(a) == Cardinality({i \in 0..30 : 2^i <= a})

\* k limbs of the expansion of rem / w (0 <= rem < w), then the remainder
RECURSIVE DivLimbs(_, _, _)
DivLimbs(rem, w, k) ==
    IF k = 0 THEN <<rem>>
    ELSE <<(rem * Limb) \div w>> \o DivLimbs((rem * Limb) % w, w, k - 1)

\* carries propagated to the left; the first limb keeps what overflows
RECURSIVE Carry(_)
Carry(limbs) ==
    IF Len(limbs) <= 1 THEN limbs
    ELSE Carry([SubSeq(limbs, 1, Len(limbs) - 1) EXCEPT
                   ![Len(limbs) - 1] = @ + limbs[Len(limbs)] \div Limb])
         \o <<limbs[Len(limbs)] % Limb>>

\* a rounded to a multiple of 2^s, ties to the even multiple; rest tells
\* whether digits below a were cut off before
RoundTo(a, s, rest) ==
    a - (a % 2^s)
      + (IF \/ a % 2^s > 2^(s - 1)
            \/ a % 2^s = 2^(s - 1) /\ (rest \/ (a \div 2^s) % 2 = 1)
         THEN 2^s ELSE 0)

\* the double nearest to m / w, for naturals 0 < m < w: [z, limbs] stands
\* for (limbs[1] * Limb^3 + ... + limbs[4]) * 2^-(56 + z); the division
\* yields 56 bits (dl, and its remainder), 53 are kept
RoundDiv(z, dl) ==
    [z |-> z,
     limbs |-> Carry(<<dl[1], dl[2], dl[3], RoundTo(dl[4], 3, dl[5] # 0)>>)]

FlDiv(m, w) ==
    RoundDiv(Cardinality({i \in 1..15 : m * 2^i < w}),
             DivLimbs(m * 2^Cardinality({i \in 1..15 : m * 2^i < w}), w, 4))

\* the double nearest to h * r, for a natural h > 0 and a double r of FlDiv:
\* [z, limbs] stands for (limbs[1] + 0.limbs[2..5]) * 2^-z; the exact
\* product p has 56 + BitLen(p[1]) bits, 53 are kept
RoundProd(z, p) ==
    [z |-> z,
     limbs |-> Carry(<<p[1], p[2], p[3], 0,
                       RoundTo(p[4] * Limb + p[5], 3 + BitLen(p[1]), FALSE)>>)]

FlMulNat(h, r) ==
    RoundProd(r.z, Carry(<<0, h * r.limbs[1], h * r.limbs[2],
                           h * r.limbs[3], h * r.limbs[4]>>))

\* sign of (0.limbs - rem / w), limbs in base Limb
RECURSIVE CmpFrac(_, _, _)
CmpFrac(limbs, rem, w) ==
    IF limbs = <<>> THEN (IF rem = 0 THEN 0 ELSE -1)
    ELSE IF limbs[1] # (rem * Limb) \div w
    THEN (IF limbs[1] > (rem * Limb) \div w THEN 1 ELSE -1)
    ELSE CmpFrac(Tail(limbs), (rem * Limb) % w, w)

(***************************************************************************)
(* A number of the program that went through the double-precision resize   *)
(* arithmetic:                                                             *)
(*   q    the exact rational the arithmetic aims at                        *)
(*   e    the sign of (double - q): the double is q, just below q (-1) or  *)
(*        just above q (1)                                                 *)
(*   ip   floor of |double|;  hb  the first bit of its fraction;           *)
(*   st   whether a later bit of the fraction is set;  neg  its sign       *)
(***************************************************************************)
Exact(a) ==
    [q |-> RInt(a), e |-> 0, ip |-> Abs(a), hb |-> 0, st |-> FALSE, neg |-> a < 0]

\* the double t = (t.limbs[1] + 0.limbs[2..5]) * 2^-t.z, which the arithmetic
\* produced for num / w, with the sign of sgn
AsNumber(t, num, w, sgn) ==
    [q |-> Rat(sgn * num, w),
     e |-> sgn * (IF t.limbs[1] # (num * 2^t.z) \div w
                  THEN (IF t.limbs[1] > (num * 2^t.z) \div w THEN 1 ELSE -1)
                  ELSE CmpFrac(Tail(t.limbs), (num * 2^t.z) % w, w)),
     ip |-> t.limbs[1] \div 2^t.z,
     hb |-> IF t.z > 0 THEN (t.limbs[1] \div 2^(t.z - 1)) % 2
            ELSE t.limbs[2] \div (Limb \div 2),
     st |-> IF t.z > 0
            THEN t.limbs[1] % 2^(t.z - 1) # 0 \/ Tail(t.limbs) # <<0, 0, 0, 0>>
            ELSE t.limbs[2] % (Limb \div 2) # 0 \/ SubSeq(t.limbs, 3, 5) # <<0, 0, 0>>,
     neg |-> sgn < 0]

\* img.height * (resize.maxWidth / img.width), for img.width > resize.maxWidth
ScaledHeight(h, m, w) ==
    IF m = 0 THEN Exact(0)
    ELSE AsNumber(FlMulNat(h, FlDiv(Abs(m), w)), h * Abs(m), w,
                  IF m < 0 THEN -1 ELSE 1)

\* (variant: Math.floor)
MathFloor(x) ==
    IF ~x.neg THEN x.ip
    ELSE IF x.hb = 1 \/ x.st THEN -(x.ip + 1) ELSE -x.ip

\* Math.round: the integer nearest to x, halves towards +infinity
MathRound(x) ==
    IF ~x.neg THEN x.ip + x.hb
    ELSE IF x.hb = 1 /\ x.st THEN -(x.ip + 1) ELSE -x.ip

\* truncation towards zero (the integer part of the WebIDL conversions)
Trunc(x) == IF x.neg THEN -x.ip ELSE x.ip

(***************************************************************************)
(* types.ts                                                                *)
(***************************************************************************)
TOP_LEFT == "top-left"
TOP_RIGHT == "top-right"
BOTTOM_LEFT == "bottom-left"
BOTTOM_RIGHT == "bottom-right"
CENTER == "center"
TILED == "tiled"
WatermarkPosition == {TOP_LEFT, TOP_RIGHT, BOTTOM_LEFT, BOTTOM_RIGHT, CENTER, TILED}

\* useState defaults of App
DefaultWatermark ==
    [text |-> "(c) WEBSNAP", fontSize |-> 24, color |-> "#000000",
     opacity |-> <<4, 5>>, position |-> BOTTOM_RIGHT, padding |-> 20,
     rotation |-> 0, tilingGap |-> 50, contrast |-> 0]

DefaultResize ==
    [maxWidth |-> 1200, quality |-> <<17, 20>>, format |-> "image/jpeg"]

(***************************************************************************)
(* Bounds of the model.                                                    *)
(***************************************************************************)
MaxFiles == 2       \* files loaded at once
MaxRuns == 2        \* batch runs started in one behaviour
MaxChanges == 1     \* settings edits in one behaviour
MaxAnchors == 20    \* watermark instances painted by one invocation
MaxDownloads == 1   \* clicks on Download All in one behaviour

(***************************************************************************)
(* The files a user can drop.  kind: "image" decodes, "corrupt" is read    *)
(* but is not an image, "unreadable" makes the FileReader fail.            *)
(***************************************************************************)
MkFile(n, k, w, h) == [name |-> n, kind |-> k, width |-> w, height |-> h]

FileA == MkFile("a.png", "image", 10, 4)
FileB == MkFile("b.jpg", "image", 8, 6)
FileC == MkFile("c.png", "corrupt", 0, 0)
FileD == MkFile("d.png", "unreadable", 0, 0)

\* the lists of files the model lets the user drop at once
\* (the last one: a.png and its copy of the same name from another folder)
Drops ==
    {<<FileA>>, <<FileA, FileB>>, <<FileB, FileC>>, <<FileD, FileA>>, <<FileA, FileA>>}

\* the settings edits the model lets the user make in the application
WatermarkEdits == {<<"position", TILED>>, <<"text", "">>}

ResizeEdits == {<<"maxWidth", 7>>}

\* the inputs of the single-invocation specification
PipeImages ==
    {MkFile("a.png", "image", 10, 45),
     MkFile("p.jpg", "image", 2000, 1000),
     MkFile("q.jpg", "image", 2000, 1001),
     MkFile("r.jpg", "image", 49, 49),
     MkFile("s.png", "image", 2000, 1),
     MkFile("c.png", "corrupt", 0, 0),
     MkFile("d.png", "unreadable", 0, 0)}

PipeMaxWidths == {1000, 1200, 7, 1, 0, -5}
PipeTexts == {"", "X", "WEBSNAP"}
PipeFontSizes == {32, 200}
PipePaddings == {30, 80}
PipeGaps == {0, 50, 100}
PipeTiledTexts == {"", "WEBSNAP"}
PipeTiledFontSizes == {300}

PipeOpacities == {<<0, 1>>, <<1, 2>>}

\* rotated, filtered and (for opacity 0) transparent watermarks
PipeStyled ==
    {[DefaultWatermark EXCEPT !.text = "X", !.fontSize = 32, !.padding = 30,
                              !.opacity = o, !.rotation = 45, !.contrast = 50,
                              !.position = pos] :
        o \in PipeOpacities, pos \in WatermarkPosition \ {TILED}}
    \cup
    {[DefaultWatermark EXCEPT !.text = "WEBSNAP", !.fontSize = 300,
                              !.opacity = o, !.rotation = 45, !.contrast = 50,
                              !.position = TILED] :
        o \in PipeOpacities}

PipeWatermarks ==
    PipeStyled \cup
    {[DefaultWatermark EXCEPT !.text = t, !.fontSize = fs, !.padding = pd,
                              !.position = pos] :
        t \in PipeTexts, fs \in PipeFontSizes, pd \in PipePaddings,
        pos \in WatermarkPosition \ {TILED}}
    \cup
    {[DefaultWatermark EXCEPT !.text = t, !.fontSize = fs, !.tilingGap = g,
                              !.position = TILED] :
        t \in PipeTiledTexts, fs \in PipeTiledFontSizes, g \in PipeGaps}

PipeResizes == {[DefaultResize EXCEPT !.maxWidth = m] : m \in PipeMaxWidths}

VARIABLES
    files,            \* App: useState files (the File of each FileData)
    processedImages,  \* App: useState processedImages
    isProcessing,     \* App: useState isProcessing
    watermark,        \* App: useState watermark
    resize,           \* App: useState resize
    runs,             \* the calls of handleProcessAll so far, and their promises
    frame,            \* the img.onload handler that is executing, if any
    changes,          \* settings edits made so far
    zip               \* ImageGrid: useState isZipping, and the archives

vars ==
    <<files, processedImages, isProcessing, watermark, resize, runs, frame, changes,
      zip>>

(***************************************************************************)
(* Promises of processImage.                                               *)
(***************************************************************************)
\* the base layer of a canvas: whether drawImage has painted, and the alpha
\* and filter of the context when it did
NoBase == [drawn |-> FALSE, alpha |-> <<1, 1>>, filter |-> "none"]

NoUrl ==
    [mime |-> "", width |-> 0, height |-> 0, base |-> NoBase, marks |-> <<>>,
     length |-> 0]

NoResult ==
    [id |-> <<0, 0>>, originalName |-> "", previewUrl |-> <<0, 0>>,
     processedUrl |-> NoUrl, width |-> 0, height |-> 0, size |-> 0]

Pending == [state |-> "pending", value |-> NoResult, reason |-> ""]
Fulfilled(v) == [state |-> "fulfilled", value |-> v, reason |-> ""]
Rejected(why) == [state |-> "rejected", value |-> NoResult, reason |-> why]

\* new Promise(...): reader.readAsDataURL(file) has been called
\* at: the number of settings edits made when the promise settled
NewInvocation == [phase |-> "reading", promise |-> Pending, at |-> 0]

(***************************************************************************)
(* processImage, the body of img.onload (services/imageProcessor.ts).      *)
(***************************************************************************)

\* (variant: always fits the image to maxWidth, upscaling narrow images)
ResizeDimsAlways(img, rs) ==
    IF img.width # rs.maxWidth
    THEN [targetWidth |-> rs.maxWidth,
          targetHeight |-> ScaledHeight(img.height, rs.maxWidth, img.width)]
    ELSE [targetWidth |-> img.width, targetHeight |-> Exact(img.height)]

\* lines 19-26: the target dimensions
ResizeDims(img, rs) ==
    IF img.width > rs.maxWidth
    THEN [targetWidth |-> rs.maxWidth,
          targetHeight |-> ScaledHeight(img.height, rs.maxWidth, img.width)]
    ELSE [targetWidth |-> img.width, targetHeight |-> Exact(img.height)]

\* canvas.width = v / canvas.height = v: the host converts the number to an
\* unsigned long (truncation) and a value outside 0..2^31-1 sets the default
CanvasDim(v, default) ==
    IF Trunc(v) < 0 THEN default ELSE Trunc(v)

\* ctx.measureText(text).width under the font set at line 41: the advances
\* of the glyphs, proportional to the font size; no glyph, no width
GlyphAdvance == <<3, 5>>
MeasureText(text, fontSize) == RMul(RInt(Len(text)), RMul(fontSize, GlyphAdvance))

\* the 2D context state a fresh canvas hands out
FreshCtx ==
    [globalAlpha |-> <<1, 1>>, fillStyle |-> "#000000", font |-> <<10, 1>>,
     filter |-> "none", tx |-> <<0, 1>>, ty |-> <<0, 1>>, rot |-> 0]

NoFrame ==
    [pc |-> "idle", run |-> 0, idx |-> 0,
     canvas |-> [width |-> 0, height |-> 0], ctx |-> FreshCtx, base |-> NoBase,
     targetWidth |-> 0, targetHeight |-> Exact(0),
     textWidth |-> <<0, 1>>, textHeight |-> <<0, 1>>, padding |-> <<0, 1>>,
     stepX |-> <<0, 1>>, stepY |-> <<0, 1>>, x |-> <<0, 1>>, y |-> <<0, 1>>,
     marks |-> <<>>]

\* (variant: the watermark alpha is set before the base image is drawn)
SetupStyledFirst(r, i, img, wm, rs) ==
    LET dims == ResizeDims(img, rs)
        scaleFactor == Rat(dims.targetWidth, 1000)
        actualFontSize == RMax(RMul(RInt(wm.fontSize), scaleFactor), RInt(12))
    IN  [NoFrame EXCEPT
            !.pc = "setup", !.run = r, !.idx = i,
            !.canvas = [width |-> CanvasDim(Exact(dims.targetWidth), 300),
                        height |-> CanvasDim(dims.targetHeight, 150)],
            !.base = [drawn |-> TRUE, alpha |-> wm.opacity,
                      filter |-> FreshCtx.filter],
            !.ctx = [FreshCtx EXCEPT !.globalAlpha = wm.opacity,
                                     !.fillStyle = wm.color,
                                     !.font = actualFontSize],
            !.targetWidth = dims.targetWidth,
            !.targetHeight = dims.targetHeight,
            !.textWidth = MeasureText(wm.text, actualFontSize),
            !.textHeight = actualFontSize,
            !.padding = RMul(RInt(wm.padding), scaleFactor)]

\* lines 14-46 and 64: canvas, base layer, watermark styling, text metrics
Setup(r, i, img, wm, rs) ==
    LET dims == ResizeDims(img, rs)
        scaleFactor == Rat(dims.targetWidth, 1000)
        actualFontSize == RMax(RMul(RInt(wm.fontSize), scaleFactor), RInt(12))
    IN  [NoFrame EXCEPT
            !.pc = "setup", !.run = r, !.idx = i,
            !.canvas = [width |-> CanvasDim(Exact(dims.targetWidth), 300),
                        height |-> CanvasDim(dims.targetHeight, 150)],
            !.base = [drawn |-> TRUE, alpha |-> FreshCtx.globalAlpha,
                      filter |-> FreshCtx.filter],
            !.ctx = [FreshCtx EXCEPT !.globalAlpha = wm.opacity,
                                     !.fillStyle = wm.color,
                                     !.font = actualFontSize],
            !.targetWidth = dims.targetWidth,
            !.targetHeight = dims.targetHeight,
            !.textWidth = MeasureText(wm.text, actualFontSize),
            !.textHeight = actualFontSize,
            !.padding = RMul(RInt(wm.padding), scaleFactor)]

\* (variant: without ctx.save() / ctx.restore())
drawWatermarkAtUnscoped(f, wm, x, y) ==
    LET moved == [f.ctx EXCEPT !.tx = RAdd(@, x), !.ty = RAdd(@, y),
                               !.rot = @ + wm.rotation]
        styled == IF wm.contrast # 0
                  THEN [moved EXCEPT !.filter = "contrast"] ELSE moved
        mark == [x |-> styled.tx, y |-> styled.ty, rot |-> styled.rot,
                 alpha |-> styled.globalAlpha, filter |-> styled.filter,
                 font |-> styled.font,
                 dx |-> RNeg(RDivInt(f.textWidth, 2)), text |-> wm.text]
    IN  [f EXCEPT !.marks = Append(@, mark), !.ctx = styled]

\* lines 49-62: paint one instance at the anchor (x, y)
drawWatermarkAt(f, wm, x, y) ==
    LET saved == f.ctx                                          \* ctx.save()
        moved == [saved EXCEPT !.tx = RAdd(@, x), !.ty = RAdd(@, y),
                               !.rot = @ + wm.rotation]
        styled == IF wm.contrast # 0
                  THEN [moved EXCEPT !.filter = "contrast"] ELSE moved
        mark == [x |-> styled.tx, y |-> styled.ty, rot |-> styled.rot,
                 alpha |-> styled.globalAlpha, filter |-> styled.filter,
                 font |-> styled.font,
                 dx |-> RNeg(RDivInt(f.textWidth, 2)), text |-> wm.text]
    IN  [f EXCEPT !.marks = Append(@, mark), !.ctx = saved]   \* ctx.restore()

\* (variant: the loops stop at the surface edge, x < a)
LtEdge(x, a, b) == RLt(x, a.q) \/ (x = a.q /\ a.e > 0)

\* x < a + b where a is a number of the resize arithmetic
LtSum(x, a, b) ==
    LET d == RSub(x, b)
    IN  RLt(d, a.q) \/ (d = a.q /\ a.e > 0)

\* (variant: the center anchor moved by the padding)
PlaceOnePaddedCenter(f, wm) ==
    LET W == RInt(f.targetWidth)
        H == f.targetHeight.q
        hw == RDivInt(f.textWidth, 2)
        hh == RDivInt(f.textHeight, 2)
        left == RAdd(f.padding, hw)
        right == RSub(RSub(W, f.padding), hw)
        top == RAdd(f.padding, hh)
        bottom == RSub(RSub(H, f.padding), hh)
        at == CASE wm.position = TOP_LEFT -> <<left, top>>
                [] wm.position = TOP_RIGHT -> <<right, top>>
                [] wm.position = BOTTOM_LEFT -> <<left, bottom>>
                [] wm.position = BOTTOM_RIGHT -> <<right, bottom>>
                [] wm.position = CENTER -> <<RAdd(RDivInt(W, 2), f.padding),
                                             RAdd(RDivInt(H, 2), f.padding)>>
                [] OTHER -> <<RInt(0), RInt(0)>>
    IN  drawWatermarkAt(f, wm, at[1], at[2])

\* (variant: the corner anchors at the padding, without the half text size)
PlaceOneAtPadding(f, wm) ==
    LET W == RInt(f.targetWidth)
        H == f.targetHeight.q
        right == RSub(W, f.padding)
        bottom == RSub(H, f.padding)
        at == CASE wm.position = TOP_LEFT -> <<f.padding, f.padding>>
                [] wm.position = TOP_RIGHT -> <<right, f.padding>>
                [] wm.position = BOTTOM_LEFT -> <<f.padding, bottom>>
                [] wm.position = BOTTOM_RIGHT -> <<right, bottom>>
                [] wm.position = CENTER -> <<RDivInt(W, 2), RDivInt(H, 2)>>
                [] OTHER -> <<RInt(0), RInt(0)>>
    IN  drawWatermarkAt(f, wm, at[1], at[2])

\* lines 82-107: the single anchor of the corner and center modes
PlaceOne(f, wm) ==
    LET W == RInt(f.targetWidth)
        H == f.targetHeight.q
        hw == RDivInt(f.textWidth, 2)
        hh == RDivInt(f.textHeight, 2)
        left == RAdd(f.padding, hw)
        right == RSub(RSub(W, f.padding), hw)
        top == RAdd(f.padding, hh)
        bottom == RSub(RSub(H, f.padding), hh)
        at == CASE wm.position = TOP_LEFT -> <<left, top>>
                [] wm.position = TOP_RIGHT -> <<right, top>>
                [] wm.position = BOTTOM_LEFT -> <<left, bottom>>
                [] wm.position = BOTTOM_RIGHT -> <<right, bottom>>
                [] wm.position = CENTER -> <<RDivInt(W, 2), RDivInt(H, 2)>>
                [] OTHER -> <<RInt(0), RInt(0)>>
    IN  drawWatermarkAt(f, wm, at[1], at[2])

\* (variant: tilingGap taken as a length, not as a percentage of the text)
EnterTilingFixedGap(f, wm) ==
    [f EXCEPT !.stepX = RAdd(f.textWidth, RInt(wm.tilingGap)),
              !.stepY = RAdd(f.textHeight, RInt(wm.tilingGap)),
              !.x = RNeg(f.textWidth), !.pc = "outer"]

\* (variant: the first column at the surface origin)
EnterTilingAtOrigin(f, wm) ==
    LET gapX == RMul(f.textWidth, Rat(wm.tilingGap, 100))
        gapY == RMul(f.textHeight, Rat(wm.tilingGap, 100))
    IN  [f EXCEPT !.stepX = RAdd(f.textWidth, gapX),
                  !.stepY = RAdd(f.textHeight, gapY),
                  !.x = RInt(0), !.pc = "outer"]

\* lines 70-76: the steps and the first column of the tiled mode
EnterTiling(f, wm) ==
    LET gapX == RMul(f.textWidth, Rat(wm.tilingGap, 100))
        gapY == RMul(f.textHeight, Rat(wm.tilingGap, 100))
    IN  [f EXCEPT !.stepX = RAdd(f.textWidth, gapX),
                  !.stepY = RAdd(f.textHeight, gapY),
                  !.x = RNeg(f.textWidth), !.pc = "outer"]

\* line 60 under the globalAlpha of line 35: an instance filled with alpha 0
\* leaves every pixel as it was
Visible(mark) == RLt(RInt(0), mark.alpha)
\* the pixel data of a canvas: the base layer and the instances over it
PixelData(base, marks) == [base |-> base, ink |-> SelectSeq(marks, Visible)]

\* canvas.toDataURL(format, quality): "data:," for a canvas without pixels,
\* otherwise the header and the base64 text of the encoded bytes
EncodedBytes(canvas) == 16 + canvas.width * canvas.height
Base64Length(n) == 4 * ((n + 2) \div 3)
\* (variant: no prefix is subtracted)
headLengthNone(format) == 0
headLength(format) == Len("data:" \o format \o ";base64,")

\* the number a / 4 (exact in binary64)
Quarters(a) ==
    [q |-> Rat(a, 4), e |-> 0, ip |-> Abs(a) \div 4, hb |-> (Abs(a) % 4) \div 2,
     st |-> Abs(a) % 2 = 1, neg |-> a < 0]

toDataURL(f, format) ==
    IF f.canvas.width = 0 \/ f.canvas.height = 0
    THEN [mime |-> "", width |-> 0, height |-> 0, base |-> NoBase,
          marks |-> <<>>, length |-> Len("data:,")]
    ELSE [mime |-> format, width |-> f.canvas.width, height |-> f.canvas.height,
          base |-> f.base, marks |-> f.marks,
          length |-> headLength(format) + Base64Length(EncodedBytes(f.canvas))]

\* lines 110-124: encode and build the ProcessedImage
Finish(f, file, rs) ==
    LET processedUrl == toDataURL(f, rs.format)
        head == headLength(rs.format)
        size == MathRound(Quarters((processedUrl.length - head) * 3))
    IN  [id |-> <<f.run, f.idx>>,
         originalName |-> file.name,
         previewUrl |-> <<f.run, f.idx>>,
         processedUrl |-> processedUrl,
         width |-> f.targetWidth,
         height |-> MathRound(f.targetHeight),
         size |-> size]

(***************************************************************************)
(* The copies of processImage in index.tsx and unnamed/part_000.  Up to    *)
(* canvas.toDataURL they are the statements of services/imageProcessor.ts  *)
(* (the font weight is 900 instead of bold, which acts through the         *)
(* measured text width only, and part_000 sets no contrast filter); the    *)
(* size is computed from the whole data URL.  The copy in unnamed/part_001 *)
(* computes the size as the service does.                                  *)
(***************************************************************************)
\* index.tsx line 146, part_000 line 104
sizeInBytes(processedUrl) == MathRound(Quarters(processedUrl.length * 3))

\* the result of the copy for the canvas that gave the service's result res
processImageCopy(res) == [res EXCEPT !.size = sizeInBytes(res.processedUrl)]

(***************************************************************************)
(* App.tsx: handleProcessAll and the promises of one batch run.            *)
(***************************************************************************)

\* handleProcessAll called from a render with (fs, wm, rs): the closure's
\* files, watermark and resize; every processImage call has started reading
NewRun(fs, wm, rs, now) ==
    [files |-> fs, watermark |-> wm, resize |-> rs,
     startedAt |-> now,       \* the number of settings edits made by then
     inv |-> [i \in 1..Len(fs) |-> NewInvocation],
     order |-> <<>>,          \* the invocations in the order they settled
     all |-> "pending",       \* the promise of Promise.all
     delivered |-> <<>>]      \* the argument of setProcessedImages

\* the watermark / resize objects an invocation reads in img.onload: the
\* arguments it was called with
InvWatermarkLive(run) == watermark
InvWatermark(run) == run.watermark
\* (variant: the handler reads the resize settings of the latest render)
InvResizeLive(run) == resize
InvResize(run) == run.resize

\* Promise.all: the values in the order of the input promises
PromiseAllByCompletion(run) ==
    [k \in 1..Len(run.order) |-> run.inv[run.order[k]].promise.value]
PromiseAll(run) == [i \in 1..Len(run.inv) |-> run.inv[i].promise.value]

\* (variant: the results are appended to the list, as
\* setProcessedImages(prev => [...prev, ...results]) would)
SettledAppending(rs2, r) ==
    LET run == rs2[r]
        n == Len(run.inv)
        anyRejected == \E i \in 1..n : run.inv[i].promise.state = "rejected"
        allFulfilled == \A i \in 1..n : run.inv[i].promise.state = "fulfilled"
    IN  IF run.all # "pending"
        THEN [runs |-> rs2, processedImages |-> processedImages,
              isProcessing |-> isProcessing]
        ELSE IF anyRejected
        THEN [runs |-> [rs2 EXCEPT ![r].all = "rejected"],
              processedImages |-> processedImages, isProcessing |-> FALSE]
        ELSE IF allFulfilled
        THEN [runs |-> [rs2 EXCEPT ![r].all = "fulfilled",
                                   ![r].delivered = PromiseAll(run)],
              processedImages |-> processedImages \o PromiseAll(run),
              isProcessing |-> FALSE]
        ELSE [runs |-> rs2, processedImages |-> processedImages,
              isProcessing |-> isProcessing]

\* an invocation of run r settled (rs2 = the runs with that promise
\* settled): the reactions of Promise.all and of handleProcessAll's
\* try / catch / finally, lines 45-53
Settled(rs2, r) ==
    LET run == rs2[r]
        n == Len(run.inv)
        anyRejected == \E i \in 1..n : run.inv[i].promise.state = "rejected"
        allFulfilled == \A i \in 1..n : run.inv[i].promise.state = "fulfilled"
    IN  IF run.all # "pending"
        THEN [runs |-> rs2, processedImages |-> processedImages,
              isProcessing |-> isProcessing]
        ELSE IF anyRejected
        THEN [runs |-> [rs2 EXCEPT ![r].all = "rejected"],
              processedImages |-> processedImages, isProcessing |-> FALSE]
        ELSE IF allFulfilled
        THEN [runs |-> [rs2 EXCEPT ![r].all = "fulfilled",
                                   ![r].delivered = PromiseAll(run)],
              processedImages |-> PromiseAll(run), isProcessing |-> FALSE]
        ELSE [runs |-> rs2, processedImages |-> processedImages,
              isProcessing |-> isProcessing]

Settle(r, i, p) ==
    LET rs2 == [runs EXCEPT ![r].inv[i].promise = p,
                            ![r].inv[i].phase = "settled",
                            ![r].inv[i].at = changes,
                            ![r].order = Append(@, i)]
        after == Settled(rs2, r)
    IN  /\ runs' = after.runs
        /\ processedImages' = after.processedImages
        /\ isProcessing' = after.isProcessing

Idle == frame.pc = "idle"
Invocations == {<<r, i>> \in (1..MaxRuns + 1) \X (1..MaxFiles + 1) :
                    r <= Len(runs) /\ i <= Len(runs[r].inv)}

\* reader.onload, lines 11-12 and 126: img.src is set
ReaderOnload(r, i) ==
    /\ Idle
    /\ runs[r].inv[i].phase = "reading"
    /\ runs[r].files[i].kind # "unreadable"
    /\ runs' = [runs EXCEPT ![r].inv[i].phase = "decoding"]
    /\ UNCHANGED <<files, processedImages, isProcessing, watermark, resize, frame, changes,
                   zip>>

\* reader.onerror = reject, line 128
ReaderOnerror(r, i) ==
    /\ Idle
    /\ runs[r].inv[i].phase = "reading"
    /\ runs[r].files[i].kind = "unreadable"
    /\ Settle(r, i, Rejected("ProgressEvent"))
    /\ UNCHANGED <<files, watermark, resize, frame, changes, zip>>

\* the image fails to decode: the error event of img; no handler is set
ImgOnerror(r, i) ==
    /\ Idle
    /\ runs[r].inv[i].phase = "decoding"
    /\ runs[r].files[i].kind = "corrupt"
    /\ runs' = [runs EXCEPT ![r].inv[i].phase = "imgerror"]
    /\ UNCHANGED <<files, processedImages, isProcessing, watermark, resize, frame, changes,
                   zip>>

\* img.onload when getContext('2d') returns null, line 16
ImgOnloadNoContext(r, i) ==
    /\ Idle
    /\ runs[r].inv[i].phase = "decoding"
    /\ runs[r].files[i].kind = "image"
    /\ Settle(r, i, Rejected("Could not get canvas context"))
    /\ UNCHANGED <<files, watermark, resize, frame, changes, zip>>

\* img.onload, lines 13-124, in the corner and center modes
ImgOnload(r, i) ==
    /\ Idle
    /\ runs[r].inv[i].phase = "decoding"
    /\ runs[r].files[i].kind = "image"
    /\ InvWatermark(runs[r]).position # TILED
    /\ LET wm == InvWatermark(runs[r])
           rs == InvResize(runs[r])
           f == PlaceOne(Setup(r, i, runs[r].files[i], wm, rs), wm)
       IN  Settle(r, i, Fulfilled(Finish(f, runs[r].files[i], rs)))
    /\ UNCHANGED <<files, watermark, resize, frame, changes, zip>>

\* img.onload in the tiled mode, lines 13-76: up to the first loop test
ImgOnloadTiled(r, i) ==
    /\ Idle
    /\ runs[r].inv[i].phase = "decoding"
    /\ runs[r].files[i].kind = "image"
    /\ InvWatermark(runs[r]).position = TILED
    /\ LET wm == InvWatermark(runs[r])
           rs == InvResize(runs[r])
       IN  frame' = EnterTiling(Setup(r, i, runs[r].files[i], wm, rs), wm)
    /\ UNCHANGED <<files, processedImages, isProcessing, watermark, resize, runs, changes,
                   zip>>

\* line 76: the test of the outer loop; when it fails, lines 110-124
TileOuter ==
    /\ frame.pc = "outer"
    /\ IF LtSum(frame.x, Exact(frame.targetWidth), frame.textWidth)
       THEN /\ frame' = [frame EXCEPT !.pc = "inner", !.y = RNeg(frame.textHeight)]
            /\ UNCHANGED <<processedImages, isProcessing, runs>>
       ELSE /\ frame' = NoFrame
            /\ Settle(frame.run, frame.idx,
                      Fulfilled(Finish(frame, runs[frame.run].files[frame.idx],
                                       InvResize(runs[frame.run]))))
    /\ UNCHANGED <<files, watermark, resize, changes, zip>>

\* lines 77-79: the test of the inner loop, one instance, y += stepY;
\* when the test fails, x += stepX
TileInner ==
    /\ frame.pc = "inner"
    /\ IF LtSum(frame.y, frame.targetHeight, frame.textHeight)
       THEN /\ Len(frame.marks) < MaxAnchors
            /\ frame' = [drawWatermarkAt(frame, InvWatermark(runs[frame.run]),
                                         frame.x, frame.y)
                            EXCEPT !.y = RAdd(frame.y, frame.stepY)]
       ELSE frame' = [frame EXCEPT !.x = RAdd(frame.x, frame.stepX), !.pc = "outer"]
    /\ UNCHANGED <<files, processedImages, isProcessing, watermark, resize, runs, changes,
                   zip>>

(***************************************************************************)
(* ImageGrid.tsx: handleDownloadAll.                                       *)
(***************************************************************************)
\* new Date().getTime() when the archive is saved
Timestamps == {1000, 2000}

NoZip == [isZipping |-> FALSE, pending |-> <<>>, saved |-> <<>>]

\* (variant: the sequence numbers start at 0)
EntryNameFromZero(index, img) ==
    "WEBSNAP_" \o ToString(index) \o "_" \o img.originalName

\* (variant: the entry is named after the file alone)
EntryNameNoIndex(index, img) == "WEBSNAP_" \o img.originalName

\* line 39: fileName, for the index of forEach (from 0)
EntryName(index, img) ==
    "WEBSNAP_" \o ToString(index + 1) \o "_" \o img.originalName

\* line 40, zip.file(fileName, base64Data, ...): JSZip keeps one entry per
\* name; adding under a name it already holds replaces that entry
ZipFile(entries, name, data) ==
    IF \E j \in 1..Len(entries) : entries[j].name = name
    THEN [j \in 1..Len(entries) |->
             IF entries[j].name = name
             THEN [name |-> name, data |-> data] ELSE entries[j]]
    ELSE Append(entries, [name |-> name, data |-> data])

\* lines 37-41: images.forEach from the i-th image on; data is the text of
\* processedUrl after the comma
RECURSIVE AddEntries(_, _, _)
AddEntries(entries, images, i) ==
    IF i > Len(images)
    THEN entries
    ELSE AddEntries(ZipFile(entries, EntryName(i - 1, images[i]),
                            images[i].processedUrl),
                    images, i + 1)

\* lines 35-41: the entries of the archive, in the order they were added
ZipEntries(images) == AddEntries(<<>>, images, 1)

\* lines 35-43: the archive being generated, for the images of the render
\* whose button was clicked
NewZip(images) ==
    [images |-> images, entries |-> ZipEntries(images), unmounted |-> FALSE]

\* lines 44-50: the archive handed to the browser as a download
SavedAs(job, t) ==
    [name |-> "WEBSNAP_BUNDLE_" \o ToString(t) \o ".zip", time |-> t,
     images |-> job.images, entries |-> job.entries]

\* ImageGrid is unmounted: its isZipping state is gone, and the
\* setIsZipping(false) of an archive still being generated has no effect
Unmounted(z) ==
    [z EXCEPT !.isZipping = FALSE,
              !.pending = [j \in 1..Len(z.pending) |->
                              [z.pending[j] EXCEPT !.unmounted = TRUE]]]

(***************************************************************************)
(* App.tsx: the user's actions.  Each one is the event handler, the        *)
(* re-render and the effect of lines 56-60 that the re-render schedules.   *)
(***************************************************************************)

\* (variant: the effect calls handleProcessAll whatever files.length is, and
\* handleProcessAll has no early return)
EffectUnguarded(fs, wm, rs, now) ==
    /\ Len(runs) < MaxRuns
    /\ isProcessing' = TRUE
    /\ runs' = Append(runs, NewRun(fs, wm, rs, now))

\* the effect of lines 56-60 after a render with (fs, wm, rs), after now
\* settings edits, followed by
\* handleProcessAll, lines 40-47, up to the await
Effect(fs, wm, rs, now) ==
    IF Len(fs) > 0
    THEN /\ Len(runs) < MaxRuns
         /\ isProcessing' = TRUE
         /\ runs' = Append(runs, NewRun(fs, wm, rs, now))
    ELSE UNCHANGED <<isProcessing, runs>>

\* lines 32-38; the Dropzone that calls it is rendered while no file is
\* loaded, lines 80-84
handleFilesAdded(newFiles) ==
    /\ Idle
    /\ Len(files) = 0
    /\ Len(files) + Len(newFiles) <= MaxFiles
    /\ files' = files \o newFiles
    /\ Effect(files', watermark, resize, changes)
    /\ UNCHANGED <<processedImages, watermark, resize, frame, changes, zip>>

\* Sidebar.tsx lines 20-22
handleChange(key, value) ==
    /\ Idle
    /\ changes < MaxChanges
    /\ changes' = changes + 1
    /\ watermark' = [watermark EXCEPT ![key] = value]
    /\ Effect(files, watermark', resize, changes + 1)
    /\ UNCHANGED <<files, processedImages, resize, frame, zip>>

\* Sidebar.tsx lines 24-26
handleResizeChange(key, value) ==
    /\ Idle
    /\ changes < MaxChanges
    /\ changes' = changes + 1
    /\ resize' = [resize EXCEPT ![key] = value]
    /\ Effect(files, watermark, resize', changes + 1)
    /\ UNCHANGED <<files, processedImages, watermark, frame, zip>>

\* the Sync button, lines 98-104: rendered when files are loaded, disabled
\* while isProcessing; onClick = handleProcessAll, lines 40-47
handleProcessAll ==
    /\ Idle
    /\ Len(files) > 0
    /\ ~isProcessing
    /\ Len(runs) < MaxRuns
    /\ isProcessing' = TRUE
    /\ runs' = Append(runs, NewRun(files, watermark, resize, changes))
    /\ UNCHANGED <<files, processedImages, watermark, resize, frame, changes, zip>>

\* lines 62-65 (the Clear button is rendered when files are loaded); with no
\* file App renders the Dropzone instead of ImageGrid, lines 81-110
clearAll ==
    /\ Idle
    /\ Len(files) > 0
    /\ files' = <<>>
    /\ processedImages' = <<>>
    /\ zip' = Unmounted(zip)
    /\ UNCHANGED <<isProcessing, watermark, resize, runs, frame, changes>>

\* ImageGrid.tsx lines 30-41: the Download All button, rendered while
\* images.length > 0 and disabled while isZipping; up to the await
handleDownloadAll ==
    /\ Idle
    /\ Len(files) > 0
    /\ Len(processedImages) > 0
    /\ ~zip.isZipping
    /\ Len(zip.pending) + Len(zip.saved) < MaxDownloads
    /\ zip' = [zip EXCEPT !.isZipping = TRUE,
                          !.pending = Append(@, NewZip(processedImages))]
    /\ UNCHANGED <<files, processedImages, isProcessing, watermark, resize, runs,
                   frame, changes>>

\* ImageGrid.tsx lines 43-55: zip.generateAsync has fulfilled for the k-th
\* pending archive, at time t
ZipGenerated(k, t) ==
    /\ Idle
    /\ k \in 1..Len(zip.pending)
    /\ zip' = [isZipping |-> IF zip.pending[k].unmounted
                             THEN zip.isZipping ELSE FALSE,
               pending |-> [j \in 1..Len(zip.pending) - 1 |->
                               zip.pending[IF j < k THEN j ELSE j + 1]],
               saved |-> Append(zip.saved, SavedAs(zip.pending[k], t))]
    /\ UNCHANGED <<files, processedImages, isProcessing, watermark, resize, runs,
                   frame, changes>>

InvocationStep ==
    \/ \E ri \in Invocations :
         \/ ReaderOnload(ri[1], ri[2])
         \/ ReaderOnerror(ri[1], ri[2])
         \/ ImgOnerror(ri[1], ri[2])
         \/ ImgOnloadNoContext(ri[1], ri[2])
         \/ ImgOnload(ri[1], ri[2])
         \/ ImgOnloadTiled(ri[1], ri[2])
    \/ TileOuter
    \/ TileInner

DownloadStep ==
    \/ handleDownloadAll
    \/ \E k \in 1..MaxDownloads, t \in Timestamps : ZipGenerated(k, t)

UserStep ==
    \/ \E nf \in Drops : handleFilesAdded(nf)
    \/ \E kv \in WatermarkEdits : handleChange(kv[1], kv[2])
    \/ \E kv \in ResizeEdits : handleResizeChange(kv[1], kv[2])
    \/ handleProcessAll
    \/ clearAll

(***************************************************************************)
(* Spec: the application.                                                  *)
(***************************************************************************)
Init ==
    /\ files = <<>>
    /\ processedImages = <<>>
    /\ isProcessing = FALSE
    /\ watermark = DefaultWatermark
    /\ resize = DefaultResize
    /\ runs = <<>>
    /\ frame = NoFrame
    /\ changes = 0
    /\ zip = NoZip

Next == UserStep \/ InvocationStep \/ DownloadStep

Spec == Init /\ [][Next]_vars

(***************************************************************************)
(* PipeSpec: one call of processImage, on every input of the Pipe sets.    *)
(***************************************************************************)
PipeInit ==
    \E f \in PipeImages, wm \in PipeWatermarks, rs \in PipeResizes :
        /\ files = <<f>>
        /\ processedImages = <<>>
        /\ isProcessing = TRUE
        /\ watermark = wm
        /\ resize = rs
        /\ runs = <<NewRun(<<f>>, wm, rs, 0)>>
        /\ frame = NoFrame
        /\ changes = 0
        /\ zip = NoZip

PipeNext == InvocationStep

PipeSpec == PipeInit /\ [][PipeNext]_vars

(***************************************************************************)
(* PairSpec: two calls of processImage on the same file and resize         *)
(* settings, with watermarks that differ in tilingGap only: 0 and 100.     *)
(***************************************************************************)
PairWatermarks ==
    {[DefaultWatermark EXCEPT !.text = "WEBSNAP", !.fontSize = 300,
                              !.tilingGap = 0, !.position = pos] :
        pos \in {TILED, CENTER}}
PairMaxWidths == {1000, 1200, 7}

PairInit ==
    \E f \in PipeImages, wm \in PairWatermarks, m \in PairMaxWidths :
        LET wide == [wm EXCEPT !.tilingGap = 100]
            rs == [DefaultResize EXCEPT !.maxWidth = m]
        IN  /\ files = <<f>>
            /\ processedImages = <<>>
            /\ isProcessing = TRUE
            /\ watermark = wide
            /\ resize = rs
            /\ runs = <<NewRun(<<f>>, wm, rs, 0), NewRun(<<f>>, wide, rs, 0)>>
            /\ frame = NoFrame
            /\ changes = 0
            /\ zip = NoZip

PairNext == InvocationStep

PairSpec == PairInit /\ [][PairNext]_vars

\* the handlers of one invocation run to completion once their event fires,
\* and the host delivers the load / error event of every read and decode
Fairness == WF_vars(InvocationStep)
FairSpec == Spec /\ Fairness
FairPipeSpec == PipeSpec /\ Fairness

(***************************************************************************)
(* The properties of the specification, as formulas over the model.        *)
(***************************************************************************)
InvFile(ri) == runs[ri[1]].files[ri[2]]
InvPromise(ri) == runs[ri[1]].inv[ri[2]].promise
HasResult(ri) == InvPromise(ri).state = "fulfilled"
ResultOf(ri) == InvPromise(ri).value
\* the integer nearest to n / d (d > 0), halves upwards, in exact arithmetic
RoundHalfUp(n, d) == (2 * n + d) \div (2 * d)
\* n / d lies exactly half-way between two integers
HalfWay(n, d) == (2 * n) % d = 0 /\ ((2 * n) \div d) % 2 = 1

\* C1: every result for a source image with originalWidth <= resize.maxWidth
\* has width = originalWidth and height = originalHeight (never upscaled).
C1_NoUpscale ==
    \A ri \in Invocations :
        HasResult(ri) /\ InvFile(ri).width <= runs[ri[1]].resize.maxWidth
            => /\ ResultOf(ri).width = InvFile(ri).width
               /\ ResultOf(ri).height = InvFile(ri).height

C1_Witness ==
    \E ri \in Invocations :
        /\ HasResult(ri)
        /\ InvFile(ri).width <= runs[ri[1]].resize.maxWidth
        /\ ResultOf(ri).width = InvFile(ri).width

\* C2 as stated: every result for a source image with originalWidth >
\* maxWidth > 0 has width = maxWidth and height = round(originalHeight *
\* maxWidth / originalWidth), the rounding of the exact quotient.
C2_ExactRound ==
    \A ri \in Invocations :
        LET m == runs[ri[1]].resize.maxWidth
            w == InvFile(ri).width
            h == InvFile(ri).height
        IN  HasResult(ri) /\ w > m /\ m > 0
                => /\ ResultOf(ri).width = m
                   /\ ResultOf(ri).height = RoundHalfUp(h * m, w)

\* C2 amended: width = maxWidth; height is within 1/2 of originalHeight *
\* maxWidth / originalWidth, and it is the rounding of that quotient
\* whenever the quotient is not exactly half-way between two integers (the
\* product is computed in binary64 as h * (m / w), which can fall just
\* below the half).
C2_WithinHalf ==
    \A ri \in Invocations :
        LET m == runs[ri[1]].resize.maxWidth
            w == InvFile(ri).width
            h == InvFile(ri).height
        IN  HasResult(ri) /\ w > m /\ m > 0
                => /\ ResultOf(ri).width = m
                   /\ 2 * Abs(ResultOf(ri).height * w - h * m) <= w
                   /\ ~HalfWay(h * m, w)
                          => ResultOf(ri).height = RoundHalfUp(h * m, w)

\* 2000x1000 with maxWidth 1000 gives 1000x500
C2_Witness ==
    \E ri \in Invocations :
        /\ HasResult(ri)
        /\ InvFile(ri).width = 2000 /\ InvFile(ri).height = 1000
        /\ runs[ri[1]].resize.maxWidth = 1000
        /\ ResultOf(ri).width = 1000 /\ ResultOf(ri).height = 500

\* C3 as stated: when every invocation of a batch has ended and one of them
\* failed, the caller has received one outcome per input file, the results
\* of the other images among them.
InvEnded(run, i) ==
    run.inv[i].promise.state # "pending" \/ run.inv[i].phase = "imgerror"
InvFailed(run, i) ==
    run.inv[i].promise.state = "rejected" \/ run.inv[i].phase = "imgerror"
C3_OutcomePerInput ==
    \A r \in 1..Len(runs) :
        LET run == runs[r]
            n == Len(run.files)
        IN  (\A i \in 1..n : InvEnded(run, i)) /\ (\E i \in 1..n : InvFailed(run, i))
                => /\ Len(run.delivered) = n
                   /\ \A i \in 1..n :
                          run.inv[i].promise.state = "fulfilled"
                              => run.delivered[i] = run.inv[i].promise.value

\* C4 as stated: once the bytes have failed to decode, the promise of
\* processImage is rejected with a DecodeError carrying the file's name.
DecodeError(name) == [error |-> "DecodeError", name |-> name]
C4_DecodeErrorRejects ==
    \A ri \in Invocations :
        runs[ri[1]].inv[ri[2]].phase = "imgerror"
            => InvPromise(ri) = Rejected(DecodeError(InvFile(ri).name))

\* C5 as stated: the pixel dimensions of the encoded image are exactly the
\* recorded result.width x result.height.
C5_EncodedDimensions ==
    \A ri \in Invocations :
        HasResult(ri)
            => /\ ResultOf(ri).processedUrl.width = ResultOf(ri).width
               /\ ResultOf(ri).processedUrl.height = ResultOf(ri).height

\* C6: whatever the order in which the invocations of a batch completed, the
\* delivered list is as long as the input list and its i-th element was
\* produced by the i-th invocation, from the i-th file.
C6_OrderPreserved ==
    \A r \in 1..Len(runs) :
        runs[r].all = "fulfilled"
            => /\ Len(runs[r].delivered) = Len(runs[r].files)
               /\ \A i \in 1..Len(runs[r].files) :
                      /\ runs[r].delivered[i].originalName = runs[r].files[i].name
                      /\ runs[r].delivered[i].id = <<r, i>>

\* a batch of two whose second invocation completed first
C6_Witness ==
    \E r \in 1..Len(runs) :
        /\ runs[r].all = "fulfilled"
        /\ runs[r].order = <<2, 1>>
        /\ runs[r].delivered[1].originalName = runs[r].files[1].name

\* C7: every result of a run is the one computed from the settings and files
\* current when the run started, whatever was edited meanwhile; a run that
\* starts takes the settings current at its start, and no step changes the
\* settings of a run already started.
FromSnapshot(r, i) ==
    LET run == runs[r]
        res == run.inv[i].promise.value
        f == Setup(r, i, run.files[i], run.watermark, run.resize)
    IN  IF run.watermark.position # TILED
        THEN res = Finish(PlaceOne(f, run.watermark), run.files[i], run.resize)
        ELSE /\ res.width = f.targetWidth
             /\ res.height = MathRound(f.targetHeight)
             /\ res.processedUrl.mime \in {"", run.resize.format}
             /\ \A k \in 1..Len(res.processedUrl.marks) :
                    /\ res.processedUrl.marks[k].text = run.watermark.text
                    /\ res.processedUrl.marks[k].alpha = run.watermark.opacity
                    /\ res.processedUrl.marks[k].rot = run.watermark.rotation
C7_SnapshotResults ==
    \A ri \in Invocations : HasResult(ri) => FromSnapshot(ri[1], ri[2])
C7_SnapshotStep ==
    /\ \A r \in 1..Len(runs) :
           /\ runs'[r].watermark = runs[r].watermark
           /\ runs'[r].resize = runs[r].resize
           /\ runs'[r].files = runs[r].files
    /\ Len(runs') > Len(runs)
           => /\ runs'[Len(runs')].watermark = watermark'
              /\ runs'[Len(runs')].resize = resize'
              /\ runs'[Len(runs')].files = files'
C7_Snapshot == []C7_SnapshotResults /\ [][C7_SnapshotStep]_vars

\* an invocation completed after an edit made while its run was in flight,
\* and the run the edit started has the new settings
C7_Witness ==
    \E ri \in Invocations :
        /\ HasResult(ri)
        /\ runs[ri[1]].inv[ri[2]].at > runs[ri[1]].startedAt
        /\ <<runs[ri[1]].watermark, runs[ri[1]].resize>> # <<watermark, resize>>
        /\ Len(runs) > ri[1]
        /\ runs[ri[1] + 1].watermark = watermark
        /\ runs[ri[1] + 1].resize = resize

\* C8 as stated: the anchor loops are entered only with stepX > 0 and
\* stepY > 0.
C8_StepGuard ==
    frame.pc = "inner" => RLt(RInt(0), frame.stepX) /\ RLt(RInt(0), frame.stepY)

\* C9 as stated (its termination): with empty text an invocation is never
\* at a loop test that holds and that no iteration can change, being in the
\* outer loop with x < targetWidth + textWidth and stepX <= 0.
C9_EmptyTextTerminates ==
    frame.pc # "idle" /\ runs[frame.run].watermark.text = ""
        => ~ /\ frame.pc \in {"outer", "inner"}
             /\ RLe(frame.stepX, RInt(0))
             /\ LtSum(frame.x, Exact(frame.targetWidth), frame.textWidth)

\* C10 as stated: with resize.maxWidth <= 0 processImage never yields a
\* result.
C10_NonPositiveMaxWidth ==
    \A ri \in Invocations :
        runs[ri[1]].resize.maxWidth <= 0 => ~HasResult(ri)

\* what processImage computed before placing the watermark, for the
\* invocation ri: target dimensions, text metrics, padding
Metrics(ri) ==
    Setup(ri[1], ri[2], InvFile(ri), runs[ri[1]].watermark, runs[ri[1]].resize)
\* a result in tiled mode whose encoded canvas has pixels
TiledResult(ri) ==
    /\ HasResult(ri)
    /\ runs[ri[1]].watermark.position = TILED
    /\ ResultOf(ri).processedUrl.mime # ""
Marks(ri) == ResultOf(ri).processedUrl.marks
Anchors(ri) == {<<Marks(ri)[k].x, Marks(ri)[k].y>> : k \in 1..Len(Marks(ri))}
\* textW * (1 + tilingGap / 100)
StepFor(size, gap) == RMul(size, Rat(100 + gap, 100))
\* the grid of C11 for textW, textH, the gap and the surface W x H
Grid(tw, th, gap, W, H) ==
    {g \in {<<RAdd(RNeg(tw), RMul(RInt(i), StepFor(tw, gap))),
              RAdd(RNeg(th), RMul(RInt(j), StepFor(th, gap)))>> :
                i \in 0..MaxAnchors, j \in 0..MaxAnchors} :
        LtSum(g[1], W, tw) /\ LtSum(g[2], H, th)}

\* C11: in tiled mode with a text of positive width the anchors painted are
\* exactly the points (-textW + i*stepX, -textH + j*stepY), i, j >= 0, with
\* x < W + textW and y < H + textH, each painted once; with tilingGap = 0
\* every column but the first has a column exactly textW to its left.
C11_TiledGrid ==
    \A ri \in Invocations :
        LET f == Metrics(ri)
            gap == runs[ri[1]].watermark.tilingGap
            grid == Grid(f.textWidth, f.textHeight, gap,
                         Exact(f.targetWidth), f.targetHeight)
        IN  TiledResult(ri) /\ RLt(RInt(0), f.textWidth)
                => /\ Anchors(ri) = grid
                   /\ Len(Marks(ri)) = Cardinality(grid)
                   /\ gap = 0
                          => \A a \in Anchors(ri) :
                                 \/ a[1] = RNeg(f.textWidth)
                                 \/ <<RSub(a[1], f.textWidth), a[2]>> \in Anchors(ri)

\* a tiled result with several columns and rows, at tilingGap = 0
C11_Witness ==
    \E ri \in Invocations :
        /\ TiledResult(ri)
        /\ runs[ri[1]].watermark.tilingGap = 0
        /\ Len(Marks(ri)) >= 9
        /\ <<RInt(0), RInt(0)>> \in Anchors(ri)
        /\ <<Metrics(ri).textWidth, RInt(0)>> \in Anchors(ri)

Columns(ri) == {a[1] : a \in Anchors(ri)}
Rows(ri) == {a[2] : a \in Anchors(ri)}
Least(S) == CHOOSE x \in S : \A y \in S : RLe(x, y)
\* the distance between the first two of the values S (at least two)
StepIn(S) == RSub(Least(S \ {Least(S)}), Least(S))
Twice(p) == RMul(RInt(2), p)
\* the same image tiled with tilingGap 0 (call 1) and 100 (call 2)
BothTiled ==
    /\ Len(runs) = 2
    /\ runs[1].watermark.tilingGap = 0 /\ runs[2].watermark.tilingGap = 100
    /\ runs[2].watermark = [runs[1].watermark EXCEPT !.tilingGap = 100]
    /\ runs[2].files = runs[1].files /\ runs[2].resize = runs[1].resize
    /\ TiledResult(<<1, 1>>) /\ TiledResult(<<2, 1>>)
    /\ RLt(RInt(0), Metrics(<<1, 1>>).textWidth)

\* C12 as stated: tilingGap = 100 makes stepX and stepY twice their value at
\* tilingGap = 0, and the numbers of anchor columns and of anchor rows half
\* the numbers at tilingGap = 0.
C12_CountsHalved ==
    BothTiled
        => /\ \A ri \in Invocations :
                  Cardinality(Columns(ri)) >= 2 /\ Cardinality(Rows(ri)) >= 2
           /\ StepIn(Columns(<<2, 1>>)) = Twice(StepIn(Columns(<<1, 1>>)))
           /\ StepIn(Rows(<<2, 1>>)) = Twice(StepIn(Rows(<<1, 1>>)))
           /\ 2 * Cardinality(Columns(<<2, 1>>)) = Cardinality(Columns(<<1, 1>>))
           /\ 2 * Cardinality(Rows(<<2, 1>>)) = Cardinality(Rows(<<1, 1>>))

\* C12 amended: there are at least two columns and two rows at either gap,
\* the steps are exactly doubled, and the numbers of columns and of rows at
\* tilingGap = 100 are half the numbers at tilingGap = 0 rounded up.
C12_CountsHalvedRoundedUp ==
    BothTiled
        => /\ \A ri \in Invocations :
                  Cardinality(Columns(ri)) >= 2 /\ Cardinality(Rows(ri)) >= 2
           /\ StepIn(Columns(<<2, 1>>)) = Twice(StepIn(Columns(<<1, 1>>)))
           /\ StepIn(Rows(<<2, 1>>)) = Twice(StepIn(Rows(<<1, 1>>)))
           /\ Cardinality(Columns(<<2, 1>>))
                  = (Cardinality(Columns(<<1, 1>>)) + 1) \div 2
           /\ Cardinality(Rows(<<2, 1>>))
                  = (Cardinality(Rows(<<1, 1>>)) + 1) \div 2

\* three columns become two, four rows become two
C12_Witness ==
    /\ BothTiled
    /\ Cardinality(Columns(<<1, 1>>)) = 3 /\ Cardinality(Columns(<<2, 1>>)) = 2
    /\ Cardinality(Rows(<<1, 1>>)) = 4 /\ Cardinality(Rows(<<2, 1>>)) = 2

\* a result whose encoded canvas has pixels
PaintedResult(ri) == HasResult(ri) /\ ResultOf(ri).processedUrl.mime # ""
Half(p) == RDivInt(p, 2)
\* watermark.padding * targetWidth / 1000
PaddingFor(wm, W) == RMul(RInt(wm.padding), Rat(W, 1000))
\* max(watermark.fontSize * targetWidth / 1000, 12)
FontFor(wm, W) ==
    IF RLt(RMul(RInt(wm.fontSize), Rat(W, 1000)), RInt(12))
    THEN RInt(12) ELSE RMul(RInt(wm.fontSize), Rat(W, 1000))

\* C13: in a corner mode exactly one instance is painted, at x = p + textW/2
\* (left) or W - p - textW/2 (right) and y = p + textH/2 (top) or
\* H - p - textH/2 (bottom), with p = padding * targetWidth / 1000, textH the
\* effective font size and W, H the unrounded target dimensions.
C13_CornerAnchor ==
    \A ri \in Invocations :
        LET wm == runs[ri[1]].watermark
            W == Metrics(ri).targetWidth
            H == Metrics(ri).targetHeight.q
            tw == Metrics(ri).textWidth
            p == PaddingFor(wm, W)
            th == FontFor(wm, W)
            left == RAdd(p, Half(tw))
            right == RSub(RSub(RInt(W), p), Half(tw))
            top == RAdd(p, Half(th))
            bottom == RSub(RSub(H, p), Half(th))
        IN  PaintedResult(ri)
            /\ wm.position \in {TOP_LEFT, TOP_RIGHT, BOTTOM_LEFT, BOTTOM_RIGHT}
                => /\ Len(Marks(ri)) = 1
                   /\ Marks(ri)[1].x
                          = IF wm.position \in {TOP_LEFT, BOTTOM_LEFT}
                            THEN left ELSE right
                   /\ Marks(ri)[1].y
                          = IF wm.position \in {TOP_LEFT, TOP_RIGHT}
                            THEN top ELSE bottom

\* 2000x1000, maxWidth 1000, text "X", padding 30, fontSize 32, bottom-right:
\* the anchor is (1000 - 30 - textW/2, 500 - 30 - 16)
C13_Witness ==
    \E ri \in Invocations :
        /\ PaintedResult(ri)
        /\ InvFile(ri).width = 2000 /\ InvFile(ri).height = 1000
        /\ runs[ri[1]].resize.maxWidth = 1000
        /\ runs[ri[1]].watermark.position = BOTTOM_RIGHT
        /\ runs[ri[1]].watermark.padding = 30
        /\ runs[ri[1]].watermark.fontSize = 32
        /\ runs[ri[1]].watermark.text = "X"
        /\ Marks(ri)[1].x = RSub(RInt(970), Half(Metrics(ri).textWidth))
        /\ Marks(ri)[1].y = RInt(454)

\* C14: in center mode the single anchor is (targetWidth / 2,
\* targetHeight / 2), whatever the padding, the text width and the font size.
C14_CenterAnchor ==
    \A ri \in Invocations :
        PaintedResult(ri) /\ runs[ri[1]].watermark.position = CENTER
            => /\ Len(Marks(ri)) = 1
               /\ Marks(ri)[1].x = Half(RInt(Metrics(ri).targetWidth))
               /\ Marks(ri)[1].y = Half(Metrics(ri).targetHeight.q)

\* a center result with a padding and a text width larger than the surface,
\* on a surface of odd width
C14_Witness ==
    \E ri \in Invocations :
        /\ PaintedResult(ri)
        /\ runs[ri[1]].watermark.position = CENTER
        /\ runs[ri[1]].watermark.padding = 80
        /\ runs[ri[1]].watermark.fontSize = 200
        /\ runs[ri[1]].watermark.text = "WEBSNAP"
        /\ Metrics(ri).targetWidth = 7
        /\ Marks(ri)[1].x = <<7, 2>>

\* C15: the font every instance is painted with, and the font and the text
\* height of the handler while it runs, are max(fontSize * targetWidth /
\* 1000, 12): never below 12, and fontSize * targetWidth / 1000 when that is
\* at least 12; the first tiled row (y = -textH) and the top corner anchors
\* (y = p + textH / 2) are placed with that size as the text height.
C15_EffectiveFontSize ==
    /\ frame.pc # "idle"
           => /\ frame.ctx.font
                     = FontFor(runs[frame.run].watermark, frame.targetWidth)
              /\ frame.textHeight = frame.ctx.font
    /\ \A ri \in Invocations :
           LET wm == runs[ri[1]].watermark
               W == Metrics(ri).targetWidth
               scaled == RMul(RInt(wm.fontSize), Rat(W, 1000))
           IN  PaintedResult(ri)
                   => /\ \A k \in 1..Len(Marks(ri)) :
                             /\ RLe(RInt(12), Marks(ri)[k].font)
                             /\ Marks(ri)[k].font = FontFor(wm, W)
                             /\ RLe(RInt(12), scaled) => Marks(ri)[k].font = scaled
                      /\ wm.position = TILED /\ Len(Marks(ri)) > 0
                             => Marks(ri)[1].y = RNeg(FontFor(wm, W))
                      /\ wm.position \in {TOP_LEFT, TOP_RIGHT}
                             => Marks(ri)[1].y
                                    = RAdd(PaddingFor(wm, W), Half(FontFor(wm, W)))

\* fontSize 32 on a surface 7 wide: 0.224 is raised to 12
C15_Witness ==
    \E ri \in Invocations :
        /\ PaintedResult(ri)
        /\ runs[ri[1]].watermark.fontSize = 32
        /\ runs[ri[1]].watermark.position = TOP_LEFT
        /\ Metrics(ri).targetWidth = 7
        /\ Marks(ri)[1].font = RInt(12)

\* the prefix "data:<format>;base64,"
Prefix(format) == "data:" \o format \o ";base64,"

\* C16: size = round((length of the data URI - length of the prefix
\* "data:<format>;base64,") * 3 / 4) for every result; when the canvas has
\* pixels the URI begins with that prefix and the rest is the base64 text of
\* the encoded bytes, so size is 3/4 of the base64 length alone.
C16_SizeFromPayload ==
    \A ri \in Invocations :
        LET url == ResultOf(ri).processedUrl
            format == runs[ri[1]].resize.format
        IN  HasResult(ri)
                => /\ ResultOf(ri).size
                          = RoundHalfUp((url.length - Len(Prefix(format))) * 3, 4)
                   /\ url.mime # ""
                          => /\ url.mime = format
                             /\ 4 * ResultOf(ri).size
                                    = 3 * Base64Length(EncodedBytes(url))

\* a 1000x500 jpeg: the URI is 23 + 666688 characters long, size 500016
C16_Witness ==
    \E ri \in Invocations :
        /\ HasResult(ri)
        /\ ResultOf(ri).processedUrl.width = 1000
        /\ ResultOf(ri).processedUrl.height = 500
        /\ ResultOf(ri).processedUrl.length = 23 + 666688
        /\ ResultOf(ri).size = 500016

\* C17: the base image is drawn with alpha 1 and no filter, whatever the
\* watermark settings; with watermark.opacity = 0 the pixel data of the
\* encoded canvas is the pixel data right after the base-image draw, in
\* every placement mode.
C17_TransparentWatermark ==
    \A ri \in Invocations :
        LET url == ResultOf(ri).processedUrl
        IN  PaintedResult(ri)
                => /\ url.base = [drawn |-> TRUE, alpha |-> RInt(1), filter |-> "none"]
                   /\ runs[ri[1]].watermark.opacity = RInt(0)
                          => PixelData(url.base, url.marks)
                                 = PixelData(url.base, <<>>)

\* a tiled result with opacity 0, a filter and a rotation: instances were
\* painted and none shows
C17_Witness ==
    \E ri \in Invocations :
        /\ PaintedResult(ri)
        /\ runs[ri[1]].watermark.opacity = RInt(0)
        /\ runs[ri[1]].watermark.contrast # 0
        /\ runs[ri[1]].watermark.position = TILED
        /\ Len(Marks(ri)) >= 4
        /\ PixelData(ResultOf(ri).processedUrl.base, Marks(ri)).ink = <<>>

\* C19: between two anchors the context has no translation, no rotation and
\* no filter; every instance is painted translated to its own anchor (in
\* tiled mode a point of the grid, each point once) and rotated by exactly
\* watermark.rotation, with the contrast filter exactly when contrast # 0.
C19_ScopedTransform ==
    /\ frame.pc \in {"outer", "inner"}
           => /\ frame.ctx.tx = RInt(0) /\ frame.ctx.ty = RInt(0)
              /\ frame.ctx.rot = 0 /\ frame.ctx.filter = "none"
              /\ \A k \in 1..Len(frame.marks) :
                     frame.marks[k].rot = runs[frame.run].watermark.rotation
    /\ \A ri \in Invocations :
           LET wm == runs[ri[1]].watermark
               f == Metrics(ri)
           IN  PaintedResult(ri)
                   => /\ \A k \in 1..Len(Marks(ri)) :
                             /\ Marks(ri)[k].rot = wm.rotation
                             /\ Marks(ri)[k].filter
                                    = IF wm.contrast # 0 THEN "contrast" ELSE "none"
                      /\ wm.position = TILED
                             => /\ Anchors(ri)
                                       \subseteq Grid(f.textWidth, f.textHeight,
                                                      wm.tilingGap,
                                                      Exact(f.targetWidth),
                                                      f.targetHeight)
                                /\ Cardinality(Anchors(ri)) = Len(Marks(ri))

\* a tiled result with rotation 45 and a contrast filter: the second and the
\* last instance are rotated by 45 about their own anchors
C19_Witness ==
    \E ri \in Invocations :
        /\ PaintedResult(ri)
        /\ runs[ri[1]].watermark.position = TILED
        /\ runs[ri[1]].watermark.rotation = 45
        /\ runs[ri[1]].watermark.contrast = 50
        /\ Len(Marks(ri)) >= 4
        /\ Marks(ri)[2].rot = 45
        /\ Marks(ri)[Len(Marks(ri))].rot = 45
        /\ Marks(ri)[Len(Marks(ri))].filter = "contrast"

Greatest(S) == CHOOSE x \in S : \A y \in S : RLe(y, x)
\* x >= a, for a number a of the resize arithmetic
AtLeast(x, a) == RLt(a.q, x) \/ (x = a.q /\ a.e <= 0)
\* a tiled result on a surface of positive size, painted with a text of
\* positive width and height
TiledWithText(ri) ==
    /\ TiledResult(ri)
    /\ Metrics(ri).targetWidth > 0
    /\ runs[ri[1]].watermark.tilingGap >= 0
    /\ RLt(RInt(0), Metrics(ri).textWidth)
    /\ RLt(RInt(0), Metrics(ri).textHeight)

\* C20 as stated: some anchor column has x <= 0 and some has x >= W, some
\* anchor row has y <= 0 and some has y >= H.
C20_PastEveryEdge ==
    \A ri \in Invocations :
        TiledWithText(ri)
            => /\ RLe(Least(Columns(ri)), RInt(0))
               /\ AtLeast(Greatest(Columns(ri)), Exact(Metrics(ri).targetWidth))
               /\ RLe(Least(Rows(ri)), RInt(0))
               /\ AtLeast(Greatest(Rows(ri)), Metrics(ri).targetHeight)

\* C20 amended: the first column is at x = -textW and the first row at
\* y = -textH, before the surface; the last column has x >= W - gapX and the
\* last row y >= H - gapY, with gapX = textW * tilingGap / 100 and gapY =
\* textH * tilingGap / 100: past the right and bottom edges when
\* tilingGap = 0, and within one gap of them otherwise.
C20_WithinOneGap ==
    \A ri \in Invocations :
        LET f == Metrics(ri)
            gap == runs[ri[1]].watermark.tilingGap
            gapX == RMul(f.textWidth, Rat(gap, 100))
            gapY == RMul(f.textHeight, Rat(gap, 100))
        IN  TiledWithText(ri)
                => /\ Least(Columns(ri)) = RNeg(f.textWidth)
                   /\ Least(Rows(ri)) = RNeg(f.textHeight)
                   /\ AtLeast(RAdd(Greatest(Columns(ri)), gapX), Exact(f.targetWidth))
                   /\ AtLeast(RAdd(Greatest(Rows(ri)), gapY), f.targetHeight)

\* tilingGap 50 on a surface 1000 wide with textW 1260: the columns are at
\* -1260 and 630, and 630 + 630 >= 1000
C20_Witness ==
    \E ri \in Invocations :
        /\ TiledWithText(ri)
        /\ runs[ri[1]].watermark.tilingGap = 50
        /\ Metrics(ri).targetWidth = 1000
        /\ Metrics(ri).textWidth = RInt(1260)
        /\ Columns(ri) = {RInt(-1260), RInt(630)}

\* the name of the file a result was produced from
SourceName(img) == runs[img.id[1]].files[img.id[2]].name
\* the archives saved and being generated
Archives == {zip.saved[k] : k \in 1..Len(zip.saved)}
              \cup {zip.pending[k] : k \in 1..Len(zip.pending)}

\* C18: every archive holds one entry per result of a delivered, non-empty
\* result list, the i-th one named WEBSNAP_<i>_<name of the source file> and
\* holding the i-th result's encoded image; a saved archive is named
\* WEBSNAP_BUNDLE_<timestamp>.zip.
C18_ArchiveNaming ==
    /\ \A a \in Archives :
           /\ Len(a.images) > 0
           /\ \E r \in 1..Len(runs) :
                  runs[r].all = "fulfilled" /\ a.images = runs[r].delivered
           /\ Len(a.entries) = Len(a.images)
           /\ \A i \in 1..Len(a.images) :
                  /\ a.entries[i].name
                         = "WEBSNAP_" \o ToString(i) \o "_" \o SourceName(a.images[i])
                  /\ a.entries[i].data = a.images[i].processedUrl
    /\ \A k \in 1..Len(zip.saved) :
           zip.saved[k].name
               = "WEBSNAP_BUNDLE_" \o ToString(zip.saved[k].time) \o ".zip"

\* the archive of the results of a.png and b.jpg, saved at time 2000
C18_Witness ==
    \E k \in 1..Len(zip.saved) :
        /\ zip.saved[k].name = "WEBSNAP_BUNDLE_2000.zip"
        /\ Len(zip.saved[k].entries) = 2
        /\ zip.saved[k].entries[1].name = "WEBSNAP_1_a.png"
        /\ zip.saved[k].entries[2].name = "WEBSNAP_2_b.jpg"
        /\ zip.saved[k].entries[2].data.width = 8

\* a step changed a dependency of the effect of App.tsx lines 56-60
DepsChanged ==
    watermark' # watermark \/ resize' # resize \/ Len(files') # Len(files)
\* the step started exactly one batch run, over the files and settings of
\* the state it leads to
StartsOneRun ==
    /\ Len(runs') = Len(runs) + 1
    /\ runs'[Len(runs')].files = files'
    /\ runs'[Len(runs')].watermark = watermark'
    /\ runs'[Len(runs')].resize = resize'
    /\ \A i \in 1..Len(files') : runs'[Len(runs')].inv[i] = NewInvocation

\* C21: a step that changes the watermark settings, the resize settings or
\* the number of files, and leaves at least one file loaded, starts exactly
\* one batch run over the loaded files with the new values; no step starts a
\* run when it leaves the file list empty; and the steps of the runs and of
\* the downloads (the steps that are not user input) start no run.
C21_ReExecution ==
    [][/\ DepsChanged /\ Len(files') > 0 => StartsOneRun
       /\ Len(files') = 0 => Len(runs') = Len(runs)
       /\ Len(runs') \in {Len(runs), Len(runs) + 1}
       /\ InvocationStep \/ DownloadStep => Len(runs') = Len(runs)]_vars

\* two runs: one started by the drop of a.png, then one started by an edit
\* of the watermark with the new settings, and the first has delivered
C21_Witness ==
    /\ Len(runs) = 2
    /\ runs[1].watermark = DefaultWatermark
    /\ runs[2].watermark # DefaultWatermark
    /\ runs[2].watermark = watermark
    /\ runs[2].startedAt = 1
    /\ runs[2].files = files
    /\ runs[1].all = "fulfilled"
    /\ processedImages = runs[1].delivered

\* run r + 1 was started by a settings edit made while run r was in flight:
\* an invocation of run r settled after that edit
Overlap(r) ==
    /\ runs[r + 1].startedAt > runs[r].startedAt
    /\ \E i \in 1..Len(runs[r].inv) :
           /\ runs[r].inv[i].phase = "settled"
           /\ runs[r].inv[i].at >= runs[r + 1].startedAt
AllFulfilled == \A r \in 1..Len(runs) : runs[r].all = "fulfilled"

\* C22 as stated: when a run was started while the run before it was in
\* flight, and all runs have settled with results (the files unchanged
\* since), processedImages holds the results of the run started last.
C22_LatestRunWins ==
    \A r \in 1..(Len(runs) - 1) :
        Overlap(r) /\ AllFulfilled /\ files = runs[Len(runs)].files
            => processedImages = runs[Len(runs)].delivered

\* C23 as stated: every batch run that has started eventually settles, and
\* isProcessing is eventually false again, whatever the reads and decodes
\* of its files do.
C23_RunsSettle ==
    \A r \in 1..MaxRuns :
        (Len(runs) >= r /\ runs[r].all = "pending")
            ~> (Len(runs) >= r /\ runs[r].all # "pending" /\ ~isProcessing)

\* the call of handleProcessAll that started run r has not finished
InFlight(r) == runs[r].all = "pending"

\* C24 as stated: isProcessing is true in every state in which at least one
\* batch run is in flight.
C24_BusyWhileInFlight ==
    (\E r \in 1..Len(runs) : InFlight(r)) => isProcessing

\* C25 as stated: while the file list is empty (initially and after Clear)
\* processedImages is empty: a run in flight when Clear was pressed does not
\* put the results of the removed files back.
C25_ClearedStaysEmpty ==
    Len(files) = 0 => processedImages = <<>>

\* the list imgs is what run r delivered: one result per file of the run,
\* in the order of its files, each computed from the run's own snapshot
DeliveredBy(imgs, r) ==
    /\ runs[r].all = "fulfilled"
    /\ imgs = runs[r].delivered
    /\ Len(imgs) = Len(runs[r].files)
    /\ \A i \in 1..Len(imgs) :
           /\ imgs[i].id = <<r, i>>
           /\ imgs[i] = runs[r].inv[i].promise.value
           /\ imgs[i].originalName = runs[r].files[i].name
           /\ FromSnapshot(r, i)

\* C26: processedImages is empty or is, entry for entry, the list one
\* single batch run delivered, computed from that run's file list and that
\* run's (watermark, resize) snapshot; and a step leaves the list alone,
\* empties it or replaces it by the whole list of one run.
C26_OneRunOnly ==
    /\ [](processedImages = <<>>
             \/ \E r \in 1..Len(runs) : DeliveredBy(processedImages, r))
    /\ [][\/ processedImages' = processedImages
          \/ processedImages' = <<>>
          \/ \E r \in 1..Len(runs') :
                 /\ runs[r].all = "pending"
                 /\ runs'[r].all = "fulfilled"
                 /\ processedImages' = runs'[r].delivered]_vars

\* two runs under different settings have delivered two results each, and
\* the list shown is the list of the second
C26_Witness ==
    /\ Len(runs) = 2
    /\ runs[1].all = "fulfilled"
    /\ runs[2].all = "fulfilled"
    /\ runs[1].watermark # runs[2].watermark
    /\ Len(runs[1].delivered) = 2
    /\ runs[1].delivered # runs[2].delivered
    /\ Len(processedImages) = 2
    /\ processedImages = runs[2].delivered

\* C27 as stated: for a decodable source of at least 1x1 pixels and a
\* positive maxWidth, every result has width >= 1, height >= 1 and
\* size >= 0.
C27_PositiveDimensions ==
    \A ri \in Invocations :
        /\ HasResult(ri)
        /\ InvFile(ri).width >= 1
        /\ InvFile(ri).height >= 1
        /\ runs[ri[1]].resize.maxWidth >= 1
        => /\ ResultOf(ri).width >= 1
           /\ ResultOf(ri).height >= 1
           /\ ResultOf(ri).size >= 0

\* the anchors of the instances painted on an encoded canvas, in order
AnchorSeq(url) == [k \in 1..Len(url.marks) |-> <<url.marks[k].x, url.marks[k].y>>]

\* C28 as stated: for every input, the copies of processImage in index.tsx
\* and unnamed/part_000 return the width, height, size and anchor sequence
\* that services/imageProcessor.ts returns.
C28_CopiesAgree ==
    \A ri \in Invocations :
        HasResult(ri) =>
            LET res == ResultOf(ri)
                copy == processImageCopy(res)
            IN  /\ copy.width = res.width
                /\ copy.height = res.height
                /\ AnchorSeq(copy.processedUrl) = AnchorSeq(res.processedUrl)
                /\ copy.size = res.size

\* C29: in every archive the entry names are pairwise distinct and there
\* are as many entries as results, also when several results carry the same
\* originalName.
C29_DistinctEntryNames ==
    \A a \in Archives :
        /\ Len(a.entries) = Len(a.images)
        /\ \A i, j \in 1..Len(a.entries) :
               i # j => a.entries[i].name # a.entries[j].name

\* a saved archive of two results that both come from a file named a.png
C29_Witness ==
    \E k \in 1..Len(zip.saved) :
        /\ Len(zip.saved[k].images) = 2
        /\ zip.saved[k].images[1].originalName = "a.png"
        /\ zip.saved[k].images[2].originalName = "a.png"
        /\ Len(zip.saved[k].entries) = 2
        /\ zip.saved[k].entries[1].name = "WEBSNAP_1_a.png"
        /\ zip.saved[k].entries[2].name = "WEBSNAP_2_a.png"

\* two invocations were given the same source image and the same settings
SameInputs(a, b) ==
    /\ InvFile(a) = InvFile(b)
    /\ runs[a[1]].watermark = runs[b[1]].watermark
    /\ runs[a[1]].resize = runs[b[1]].resize
\* a result without the fields that name the invocation
Anonymous(res) == [res EXCEPT !.id = <<0, 0>>, !.previewUrl = <<0, 0>>]

\* C30: two invocations that were given the same source image and the same
\* watermark and resize settings, in the same batch or in different ones,
\* and that both produce a result, produce the same width, height, size,
\* anchor sequence and encoded image: the results differ in id and
\* previewUrl at most.
C30_Deterministic ==
    \A a, b \in Invocations :
        a # b /\ HasResult(a) /\ HasResult(b) /\ SameInputs(a, b)
            => /\ ResultOf(a).width = ResultOf(b).width
               /\ ResultOf(a).height = ResultOf(b).height
               /\ ResultOf(a).size = ResultOf(b).size
               /\ AnchorSeq(ResultOf(a).processedUrl)
                      = AnchorSeq(ResultOf(b).processedUrl)
               /\ Anonymous(ResultOf(a)) = Anonymous(ResultOf(b))

\* the two copies of a.png of one batch have both been processed, one of
\* them after a settings edit made while the batch was in flight, and so
\* has a.png in another batch under the same settings
C30_Witness ==
    \E a, b, c \in Invocations :
        /\ a[1] = b[1] /\ a[2] # b[2] /\ c[1] # a[1]
        /\ HasResult(a) /\ HasResult(b) /\ HasResult(c)
        /\ SameInputs(a, b) /\ SameInputs(a, c)
        /\ ResultOf(a).id # ResultOf(b).id
        /\ Len(runs[c[1]].files) = 1
        /\ runs[a[1]].inv[a[2]].at # runs[a[1]].inv[b[2]].at

====
